---- MODULE Spec2Model ----
(***************************************************************************)
(* Model of examples/temp_do_not_use.py: the label partitioner             *)
(* _get_sample_indices, the subplot drawer _add_sub_plot and the           *)
(* comparison renderer visualize.                                          *)
(*                                                                         *)
(* A matrix (2-d numpy array) is a record [ncols, rows]: rows is the       *)
(* sequence of its rows, ncols its second shape entry (kept apart so that  *)
(* an array of shape (0, 2) still has two columns).  A label vector (1-d   *)
(* numpy array) is a sequence of integers.  Row indices are 1-based here   *)
(* and 0-based in the source.                                              *)
(***************************************************************************)
EXTENDS Integers, Sequences, FiniteSets, TLC

VARIABLES
    pc,             \* position of the running call ("idle" between calls)
    clf_name, X_train, y_train, X_test, y_test, y_train_pred, y_test_pred,
    show_figure, save_figure,       \* arguments of visualize
    part,           \* the eight partition locals of visualize
    exc,            \* the exception raised by the running call
    events,         \* calls made so far by the running call, in order
    fig,            \* the figure the running call builds
    openFigures,    \* figures open in the pyplot backend
    X, y, ret       \* a direct call of _get_sample_indices: arguments, result

vars ==
    <<pc, clf_name, X_train, y_train, X_test, y_test, y_train_pred,
      y_test_pred, show_figure, save_figure, part, exc, events, fig,
      openFigures, X, y, ret>>

args ==
    <<clf_name, X_train, y_train, X_test, y_test, y_train_pred, y_test_pred,
      show_figure, save_figure>>

direct ==
    <<X, y, ret>>

---------------------------------------------------------------------------
(* Bounds of the model.                                                    *)

MaxRows ==
    2

MaxCols ==
    3

MaxFigures ==
    1

Labels ==
    {0, 1, 2}

CellValues ==
    {7, 8}

---------------------------------------------------------------------------
(* numpy                                                                   *)

Shape(M) ==
    <<Len(M.rows), M.ncols>>

Range(s) ==
    {s[i] : i \in 1..Len(s)}

\* np.where(y == v)[0]: the positions of y holding v, ascending.
np_where(yy, v) ==
    SelectSeq([i \in 1..Len(yy) |-> i], LAMBDA i : yy[i] = v)

\* The bound off by one: the last row taken to be out of range.
IndexInBoundsStrict(M, idx) ==
    \A k \in 1..Len(idx) : idx[k] < Len(M.rows)

\* X[idx] for an index array idx is defined when every index is a row of X.
IndexInBounds(M, idx) ==
    \A k \in 1..Len(idx) : idx[k] <= Len(M.rows)

\* X[idx]: the rows of X at idx, in the order of idx; the columns stay.
Take(M, idx) ==
    [ncols |-> M.ncols, rows |-> [k \in 1..Len(idx) |-> M.rows[idx[k]]]]

NoMatrix ==
    [ncols |-> 0, rows |-> <<>>]

NoExc ==
    [type |-> "None", msg |-> "", shape |-> <<0, 0>>]

IndexError ==
    [type |-> "IndexError", msg |-> "index is out of bounds for axis 0",
     shape |-> <<0, 0>>]

---------------------------------------------------------------------------
(* _get_sample_indices                                                     *)

NoRet ==
    [exc |-> NoExc, X_outliers |-> NoMatrix, X_inliers |-> NoMatrix]

\* The labels of the two lookups exchanged.
OutlierIndicesSwapped(yy) ==
    np_where(yy, 0)

\* 83: np.where(y == 1)
OutlierIndices(yy) ==
    np_where(yy, 1)

\* The condition of line 83 repeated in line 84.
InlierIndicesRepeated(yy) ==
    np_where(yy, 1)

\* Every row that is not an outlier taken for an inlier (y != 1).
InlierIndicesNotOutlier(yy) ==
    SelectSeq([i \in 1..Len(yy) |-> i], LAMBDA i : yy[i] # 1)

\* 84: np.where(y == 0)
InlierIndices(yy) ==
    np_where(yy, 0)

\* Line 83 is evaluated before line 84; either indexing raises IndexError
\* when a selected position is not a row of X, and then nothing is returned.
_get_sample_indices(M, yy) ==
    IF ~IndexInBounds(M, OutlierIndices(yy)) \/ ~IndexInBounds(M, InlierIndices(yy))
    THEN [exc |-> IndexError, X_outliers |-> NoMatrix, X_inliers |-> NoMatrix]
    ELSE [exc |-> NoExc,
          X_outliers |-> Take(M, OutlierIndices(yy)),
          X_inliers |-> Take(M, InlierIndices(yy))]

---------------------------------------------------------------------------
(* sklearn.utils.validation, as visualize uses it                          *)

ValueError(m, sh) ==
    [type |-> "ValueError", msg |-> m, shape |-> sh]

\* check_consistent_length(a, b): both hold the same number of samples.
check_consistent_length(a, b) ==
    IF Len(a) = Len(b)
    THEN NoExc
    ELSE ValueError("Found input variables with inconsistent numbers of samples",
                    <<0, 0>>)

\* check_X_y(X, y): X is validated first (a 2-d array with at least one
\* sample), then y is made 1-d, then the two lengths are compared.
check_X_y(M, yy) ==
    IF Len(M.rows) < 1
    THEN ValueError("Found array with 0 sample(s) while a minimum of 1 is required",
                    <<0, 0>>)
    ELSE check_consistent_length(M.rows, yy)

---------------------------------------------------------------------------
(* _add_sub_plot                                                           *)

\* X[:, 0] and X[:, 1] of a matrix, paired point by point.
Points(M) ==
    [i \in 1..Len(M.rows) |-> <<M.rows[i][1], M.rows[i][2]>>]

\* The panel _add_sub_plot draws into the current axes: two scatter series
\* (lines 53-56), the title (57) and the legend (60).
_add_sub_plot(X_inliers, X_outliers, sub_plot_title, inlier_color, outlier_color) ==
    [title |-> sub_plot_title,
     series |-> << [label |-> "inliers", points |-> Points(X_inliers),
                    color |-> inlier_color, s |-> 40, marker |-> "o"],
                   [label |-> "outliers", points |-> Points(X_outliers),
                    color |-> outlier_color, s |-> 50, marker |-> "^"] >>]

NoFigure ==
    [created |-> 0, suptitle |-> "", panels |-> <<>>]

NoPart ==
    [X_train_outliers |-> NoMatrix, X_train_inliers |-> NoMatrix,
     X_train_outliers_pred |-> NoMatrix, X_train_inliers_pred |-> NoMatrix,
     X_test_outliers |-> NoMatrix, X_test_inliers |-> NoMatrix,
     X_test_outliers_pred |-> NoMatrix, X_test_inliers_pred |-> NoMatrix]

---------------------------------------------------------------------------
(* Inputs                                                                  *)

\* The matrices a direct call of _get_sample_indices is given: every row
\* repeats one cell value, so equal rows at different positions occur.
RowsOf(c) ==
    {[j \in 1..c |-> v] : v \in CellValues}

Matrices ==
    UNION {{[ncols |-> c, rows |-> r] : r \in [1..n -> RowsOf(c)]} :
           n \in 0..MaxRows, c \in 1..MaxCols}

LabelVectors(n) ==
    [1..n -> Labels]

\* The label vectors of a direct call: shorter, as long as, and longer than X.
DirectLabelVectors ==
    UNION {LabelVectors(n) : n \in 0..(MaxRows + 1)}

\* The matrices visualize is given: n distinct rows of c cells.
Mat(n, c, base) ==
    [ncols |-> c, rows |-> [i \in 1..n |-> [j \in 1..c |-> base + 10 * i + j]]]

\* A fixed label vector of length n: 1, 0, 1, ...
PatternVec(n) ==
    [i \in 1..n |-> i % 2]

ClfNames ==
    {"LOF", "KNN"}

\* The lengths of the label vectors of those calls.
VectorLengths ==
    (MaxRows - 1)..MaxRows

\* The row counts of the matrices of those calls: none, and each length.
RowCounts ==
    {0} \cup VectorLengths

\* A call of any shape and lengths, with the labels fixed.
ShapeCase(nm, nt, ct, a, c, ns, cs, b, d, sh, sv) ==
    [clf_name |-> nm,
     X_train |-> Mat(nt, ct, 0), y_train |-> PatternVec(a),
     X_test |-> Mat(ns, cs, 100), y_test |-> PatternVec(b),
     y_train_pred |-> PatternVec(c), y_test_pred |-> PatternVec(d),
     show_figure |-> sh, save_figure |-> sv]

\* A well-formed call in which the label vector named k is v and the other
\* three are fixed, the flags at their defaults (show_figure=True,
\* save_figure=False).
LabelCase(nt, ns, k, v) ==
    [clf_name |-> "LOF",
     X_train |-> Mat(nt, 2, 0),
     y_train |-> IF k = "y_train" THEN v ELSE PatternVec(nt),
     X_test |-> Mat(ns, 2, 100),
     y_test |-> IF k = "y_test" THEN v ELSE PatternVec(ns),
     y_train_pred |-> IF k = "y_train_pred" THEN v ELSE PatternVec(nt),
     y_test_pred |-> IF k = "y_test_pred" THEN v ELSE PatternVec(ns),
     show_figure |-> TRUE, save_figure |-> FALSE]

NoArgs ==
    [clf_name |-> "", X_train |-> NoMatrix, y_train |-> <<>>,
     X_test |-> NoMatrix, y_test |-> <<>>, y_train_pred |-> <<>>,
     y_test_pred |-> <<>>, show_figure |-> FALSE, save_figure |-> FALSE]

---------------------------------------------------------------------------
(* State                                                                   *)

Idle ==
    /\ pc = "idle"
    /\ clf_name = NoArgs.clf_name
    /\ X_train = NoArgs.X_train
    /\ y_train = NoArgs.y_train
    /\ X_test = NoArgs.X_test
    /\ y_test = NoArgs.y_test
    /\ y_train_pred = NoArgs.y_train_pred
    /\ y_test_pred = NoArgs.y_test_pred
    /\ show_figure = NoArgs.show_figure
    /\ save_figure = NoArgs.save_figure
    /\ part = NoPart
    /\ exc = NoExc
    /\ events = <<>>
    /\ fig = NoFigure

Init ==
    /\ Idle
    /\ openFigures = 0
    /\ X = NoMatrix
    /\ y = <<>>
    /\ ret = NoRet

\* The frame of the running call is dropped; the pyplot backend is not.
Unwind ==
    /\ pc' = "idle"
    /\ clf_name' = NoArgs.clf_name
    /\ X_train' = NoArgs.X_train
    /\ y_train' = NoArgs.y_train
    /\ X_test' = NoArgs.X_test
    /\ y_test' = NoArgs.y_test
    /\ y_train_pred' = NoArgs.y_train_pred
    /\ y_test_pred' = NoArgs.y_test_pred
    /\ show_figure' = NoArgs.show_figure
    /\ save_figure' = NoArgs.save_figure
    /\ part' = NoPart
    /\ exc' = NoExc
    /\ events' = <<>>
    /\ fig' = NoFigure

\* A statement that either raises e or falls through to the line next.
RaiseOrGoto(e, next) ==
    /\ pc' = IF e.type = "None" THEN next ELSE "raised"
    /\ exc' = e

---------------------------------------------------------------------------
(* visualize                                                               *)

\* The arguments a are bound to the parameters of visualize.
Bind(a) ==
    /\ clf_name' = a.clf_name
    /\ X_train' = a.X_train
    /\ y_train' = a.y_train
    /\ X_test' = a.X_test
    /\ y_test' = a.y_test
    /\ y_train_pred' = a.y_train_pred
    /\ y_test_pred' = a.y_test_pred
    /\ show_figure' = a.show_figure
    /\ save_figure' = a.save_figure

\* visualize is called: with any shapes and lengths, or with well-formed
\* data and any labelling in one of the four label vectors.
Call ==
    /\ pc = "idle"
    /\ openFigures < MaxFigures
    /\ \/ \E nm \in ClfNames, nt \in RowCounts, ct \in 1..MaxCols,
             a \in VectorLengths, c \in VectorLengths,
             ns \in RowCounts, cs \in 1..MaxCols,
             b \in VectorLengths, d \in VectorLengths,
             sh \in BOOLEAN, sv \in BOOLEAN :
               Bind(ShapeCase(nm, nt, ct, a, c, ns, cs, b, d, sh, sv))
       \/ \E nt \in 1..MaxRows, ns \in 1..MaxRows :
             \/ \E k \in {"y_train", "y_train_pred"}, v \in LabelVectors(nt) :
                   Bind(LabelCase(nt, ns, k, v))
             \/ \E k \in {"y_test", "y_test_pred"}, v \in LabelVectors(ns) :
                   Bind(LabelCase(nt, ns, k, v))
    /\ pc' = "L127"
    /\ UNCHANGED <<part, exc, events, fig, openFigures, direct>>

\* 127: X_train, y_train = check_X_y(X_train, y_train)
CheckTrain ==
    /\ pc = "L127"
    /\ RaiseOrGoto(check_X_y(X_train, y_train), "L128")
    /\ UNCHANGED <<args, part, events, fig, openFigures, direct>>

\* 128: X_test, y_test = check_X_y(X_test, y_test)
CheckTest ==
    /\ pc = "L128"
    /\ RaiseOrGoto(check_X_y(X_test, y_test), "L130")
    /\ UNCHANGED <<args, part, events, fig, openFigures, direct>>

\* 130-131: column_or_1d leaves a 1-d vector as it is.
Coerce ==
    /\ pc = "L130"
    /\ pc' = "L133"
    /\ UNCHANGED <<args, part, exc, events, fig, openFigures, direct>>

\* The shape the message of line 135 is formatted with.
ReportedShape ==
    Shape(X_train)

\* The condition of line 133 with "and" for "or".
CheckFeaturesBoth ==
    /\ pc = "L133"
    /\ RaiseOrGoto(IF X_train.ncols # 2 /\ X_test.ncols # 2
                   THEN ValueError("Input data has to be 2-d for visualization. The input data has {shape}.",
                                   ReportedShape)
                   ELSE NoExc,
                   "L136")
    /\ UNCHANGED <<args, part, events, fig, openFigures, direct>>

\* 133-135
CheckFeatures ==
    /\ pc = "L133"
    /\ RaiseOrGoto(IF X_train.ncols # 2 \/ X_test.ncols # 2
                   THEN ValueError("Input data has to be 2-d for visualization. The input data has {shape}.",
                                   ReportedShape)
                   ELSE NoExc,
                   "L136")
    /\ UNCHANGED <<args, part, events, fig, openFigures, direct>>

\* 136: check_consistent_length(y_train, y_train_pred)
CheckTrainPred ==
    /\ pc = "L136"
    /\ RaiseOrGoto(check_consistent_length(y_train, y_train_pred), "L137")
    /\ UNCHANGED <<args, part, events, fig, openFigures, direct>>

\* 137: check_consistent_length(y_test, y_test_pred)
CheckTestPred ==
    /\ pc = "L137"
    /\ RaiseOrGoto(check_consistent_length(y_test, y_test_pred), "L139")
    /\ UNCHANGED <<args, part, events, fig, openFigures, direct>>

\* One of the four calls of lines 139-145: the pair returned is unpacked
\* into the locals named outl and inl.
Partition(at, M, yy, outl, inl, next) ==
    /\ pc = at
    /\ LET r == _get_sample_indices(M, yy)
       IN /\ RaiseOrGoto(r.exc, next)
          /\ part' = IF r.exc.type = "None"
                     THEN [part EXCEPT ![outl] = r.X_outliers, ![inl] = r.X_inliers]
                     ELSE part
    /\ events' = Append(events, [op |-> "_get_sample_indices", arg |-> outl])
    /\ UNCHANGED <<args, fig, openFigures, direct>>

\* 139
PartitionTrain ==
    Partition("L139", X_train, y_train,
              "X_train_outliers", "X_train_inliers", "L140")

\* 140-141
PartitionTrainPred ==
    Partition("L140", X_train, y_train_pred,
              "X_train_outliers_pred", "X_train_inliers_pred", "L143")

\* 143
PartitionTest ==
    Partition("L143", X_test, y_test,
              "X_test_outliers", "X_test_inliers", "L144")

\* 144-145
PartitionTestPred ==
    Partition("L144", X_test, y_test_pred,
              "X_test_outliers_pred", "X_test_inliers_pred", "L148")

\* 148-149: plt.figure registers a new figure with pyplot.
NewFigure ==
    /\ pc = "L148"
    /\ pc' = "L151"
    /\ fig' = [created |-> fig.created + 1,
               suptitle |-> "Demo of " \o clf_name,
               panels |-> <<>>]
    /\ openFigures' = openFigures + 1
    /\ events' = Append(events, [op |-> "figure", arg |-> ""])
    /\ UNCHANGED <<args, part, exc, direct>>

\* fig.add_subplot(position) followed by _add_sub_plot(...).
SubPlot(at, position, panel, next) ==
    /\ pc = at
    /\ pc' = next
    /\ fig' = [fig EXCEPT !.panels = Append(@, [position |-> position, panel |-> panel])]
    /\ events' = Append(events, [op |-> "_add_sub_plot", arg |-> panel.title])
    /\ UNCHANGED <<args, part, exc, openFigures, direct>>

\* 151-153
SubPlotTrain ==
    SubPlot("L151", 221,
            _add_sub_plot(part.X_train_inliers, part.X_train_outliers,
                          "Train set ground truth", "blue", "orange"),
            "L155")

\* The second panel given the ground-truth partition of the first.
SubPlotTrainPredTruth ==
    SubPlot("L155", 222,
            _add_sub_plot(part.X_train_inliers, part.X_train_outliers,
                          "Train set prediction", "blue", "orange"),
            "L160")

\* 155-158
SubPlotTrainPred ==
    SubPlot("L155", 222,
            _add_sub_plot(part.X_train_inliers_pred, part.X_train_outliers_pred,
                          "Train set prediction", "blue", "orange"),
            "L160")

\* The third panel drawn with the default colours of _add_sub_plot.
SubPlotTestDefaultColours ==
    SubPlot("L160", 223,
            _add_sub_plot(part.X_test_inliers, part.X_test_outliers,
                          "Test set ground truth", "blue", "orange"),
            "L164")

\* 160-162
SubPlotTest ==
    SubPlot("L160", 223,
            _add_sub_plot(part.X_test_inliers, part.X_test_outliers,
                          "Test set ground truth", "green", "red"),
            "L164")

\* 164-167
SubPlotTestPred ==
    SubPlot("L164", 224,
            _add_sub_plot(part.X_test_inliers_pred, part.X_test_outliers_pred,
                          "Test set prediction", "green", "red"),
            "L169")

\* The file written on the wrong flag.
SaveFigureOnShow ==
    /\ pc = "L169"
    /\ pc' = "L172"
    /\ events' = IF show_figure
                 THEN Append(events, [op |-> "savefig", arg |-> clf_name \o ".png"])
                 ELSE events
    /\ UNCHANGED <<args, part, exc, fig, openFigures, direct>>

\* 169-170
SaveFigure ==
    /\ pc = "L169"
    /\ pc' = "L172"
    /\ events' = IF save_figure
                 THEN Append(events, [op |-> "savefig", arg |-> clf_name \o ".png"])
                 ELSE events
    /\ UNCHANGED <<args, part, exc, fig, openFigures, direct>>

\* What plt.show() leaves open: a backend without a display returns at once
\* and closes nothing; a GUI backend blocks until every window is closed.
AfterShow(n) ==
    {n, 0}

\* 172-173
ShowFigure ==
    /\ pc = "L172"
    /\ pc' = "L175"
    /\ IF show_figure
       THEN /\ events' = Append(events, [op |-> "show", arg |-> ""])
            /\ openFigures' \in AfterShow(openFigures)
       ELSE UNCHANGED <<events, openFigures>>
    /\ UNCHANGED <<args, part, exc, fig, direct>>

\* visualize closing its own figure before it returns.
AfterReturnClosed(n) ==
    IF n > 0 THEN n - 1 ELSE 0

\* What returning from visualize leaves open in pyplot: nothing is closed.
AfterReturn(n) ==
    n

\* 175
Return ==
    /\ pc = "L175"
    /\ Unwind
    /\ openFigures' = AfterReturn(openFigures)
    /\ UNCHANGED direct

\* The exception leaves visualize for the caller.
Propagate ==
    /\ pc = "raised"
    /\ Unwind
    /\ UNCHANGED <<openFigures, direct>>

Next ==
    \/ Call
    \/ CheckTrain
    \/ CheckTest
    \/ Coerce
    \/ CheckFeatures
    \/ CheckTrainPred
    \/ CheckTestPred
    \/ PartitionTrain
    \/ PartitionTrainPred
    \/ PartitionTest
    \/ PartitionTestPred
    \/ NewFigure
    \/ SubPlotTrain
    \/ SubPlotTrainPred
    \/ SubPlotTest
    \/ SubPlotTestPred
    \/ SaveFigure
    \/ ShowFigure
    \/ Return
    \/ Propagate

Spec ==
    Init /\ [][Next]_vars

---------------------------------------------------------------------------
(* A direct call of _get_sample_indices                                    *)

InitPartition ==
    /\ Idle
    /\ openFigures = 0
    /\ X \in Matrices
    /\ y \in DirectLabelVectors
    /\ ret = NoRet

\* 83-85
GetSampleIndices ==
    /\ pc = "idle"
    /\ pc' = "returned"
    /\ ret' = _get_sample_indices(X, y)
    /\ UNCHANGED <<args, part, exc, events, fig, openFigures, X, y>>

NextPartition ==
    GetSampleIndices

SpecPartition ==
    InitPartition /\ [][NextPartition]_vars

---------------------------------------------------------------------------
(* Vocabulary of the properties                                            *)

\* The rows among the first n of rows whose label is v, in ascending order.
RECURSIVE RowsLabelled(_, _, _, _)
RowsLabelled(rows, yy, v, n) ==
    IF n = 0
    THEN <<>>
    ELSE IF yy[n] = v
         THEN Append(RowsLabelled(rows, yy, v, n - 1), rows[n])
         ELSE RowsLabelled(rows, yy, v, n - 1)

\* The rows among the first n of rows whose index is in S, in ascending order.
RECURSIVE RowsAt(_, _, _)
RowsAt(rows, S, n) ==
    IF n = 0
    THEN <<>>
    ELSE IF n \in S
         THEN Append(RowsAt(rows, S, n - 1), rows[n])
         ELSE RowsAt(rows, S, n - 1)

Returned ==
    /\ pc = "returned"
    /\ ret.exc.type = "None"

BinaryLabels(yy) ==
    \A i \in 1..Len(yy) : yy[i] \in {0, 1}

WellFormedDirect ==
    /\ Len(y) = Len(X.rows)
    /\ BinaryLabels(y)

---------------------------------------------------------------------------
(* Properties of _get_sample_indices, under SpecPartition                  *)

---------------------------------------------------------------------------
(* Vocabulary of the properties of visualize                               *)

Running ==
    pc # "idle"

Validating ==
    pc \in {"L127", "L128", "L130", "L133", "L136", "L137"}

\* All four panels are drawn.
Drawn ==
    pc \in {"L169", "L172", "L175"}

\* All four partitions are computed.
Partitioned ==
    pc \in {"L148", "L151", "L155", "L160", "L164", "L169", "L172", "L175"}

\* The positions in events of the calls of op.
EventsOf(op) ==
    {i \in 1..Len(events) : events[i].op = op}

\* The arguments break one of the preconditions that visualize validates.
BadFeatures ==
    X_train.ncols # 2 \/ X_test.ncols # 2

BadLengths ==
    \/ Len(y_train) # Len(X_train.rows)
    \/ Len(y_test) # Len(X_test.rows)
    \/ Len(y_train_pred) # Len(y_train)
    \/ Len(y_test_pred) # Len(y_test)

ShapeErrorRaised ==
    /\ pc = "raised"
    /\ exc.msg = "Input data has to be 2-d for visualization. The input data has {shape}."

\* The panel that shows the rows of M labelled by yy.
ExpectedSeries(M, yy) ==
    [inliers |-> Points([ncols |-> M.ncols,
                         rows |-> RowsLabelled(M.rows, yy, 0, Len(yy))]),
     outliers |-> Points([ncols |-> M.ncols,
                          rows |-> RowsLabelled(M.rows, yy, 1, Len(yy))])]

\* The series of panel k with the given legend label.
SeriesOf(k, label) ==
    {fig.panels[k].panel.series[j].points :
        j \in {j \in 1..2 : fig.panels[k].panel.series[j].label = label}}

PanelShows(k, M, yy) ==
    /\ SeriesOf(k, "inliers") = {ExpectedSeries(M, yy).inliers}
    /\ SeriesOf(k, "outliers") = {ExpectedSeries(M, yy).outliers}

\* Grid position, title and the inlier and outlier colours of panel k.
PanelLayout(k) ==
    <<fig.panels[k].position,
      fig.panels[k].panel.title,
      fig.panels[k].panel.series[1].label,
      fig.panels[k].panel.series[1].color,
      fig.panels[k].panel.series[2].label,
      fig.panels[k].panel.series[2].color>>

\* The rows of M whose label in yy is 0 or 1.
BinaryRows(yy) ==
    {i \in 1..Len(yy) : yy[i] \in {0, 1}}

\* The two subsets hold only rows of M with a label in {0,1}, and as many
\* rows as M has of those.
ExcludesOtherLabels(M, yy, outl, inl) ==
    /\ Len(outl.rows) + Len(inl.rows) = Cardinality(BinaryRows(yy))
    /\ \A i \in 1..Len(yy) :
          yy[i] \notin {0, 1} => M.rows[i] \notin Range(outl.rows) \cup Range(inl.rows)

---------------------------------------------------------------------------
(* Properties of visualize, under Spec                                     *)

\* C3: a call whose X_train or X_test has not exactly 2 columns, or whose
\* label or prediction lengths disagree, never gets past validation: it has
\* made no call at all (no partition, figure, panel, savefig or show), has
\* no figure, and leaves validation only by raising.
C3_FailsBeforeAnyFigure ==
    (Running /\ (BadFeatures \/ BadLengths)) =>
        /\ Validating \/ pc = "raised"
        /\ pc = "raised" => exc.type = "ValueError"
        /\ events = <<>>
        /\ fig = NoFigure

C3_Witness ==
    /\ pc = "raised"
    /\ Len(X_train.rows) = 2
    /\ X_train.ncols = 2
    /\ X_test.ncols = 2
    /\ Len(y_train) = 2
    /\ Len(y_test) = Len(X_test.rows)
    /\ Len(y_train_pred) = 2
    /\ Len(y_test_pred) # Len(y_test)
    /\ exc.type = "ValueError"
    /\ events = <<>>

\* C4 as claimed: the message of a failed shape validation reports an
\* offending shape, that of a matrix given whose feature count is not 2.
C4_MessageReportsOffendingShape ==
    ShapeErrorRaised =>
        /\ exc.shape \in {Shape(X_train), Shape(X_test)}
        /\ exc.shape[2] # 2

\* C6: when the call is complete, savefig was called iff save_figure, once
\* and with '<clf_name>.png'; show was called iff show_figure, once; the
\* file is written before the display; and both follow all four panels.
C6_SaveThenShow ==
    pc = "L175" =>
        /\ Cardinality(EventsOf("savefig")) = IF save_figure THEN 1 ELSE 0
        /\ Cardinality(EventsOf("show")) = IF show_figure THEN 1 ELSE 0
        /\ \A i \in EventsOf("savefig") : events[i].arg = clf_name \o ".png"
        /\ \A i \in EventsOf("savefig"), j \in EventsOf("show") : i < j
        /\ Cardinality(EventsOf("_add_sub_plot")) = 4
        /\ \A i \in EventsOf("_add_sub_plot"),
              j \in EventsOf("savefig") \cup EventsOf("show") : i < j

C6_Witness ==
    /\ pc = "L175"
    /\ clf_name = "KNN"
    /\ save_figure
    /\ show_figure
    /\ Len(events) = 11

\* C7 as claimed: between calls no figure is open in the backend.
C7_Original ==
    pc = "idle" => openFigures = 0

\* C7 as amended: visualize never closes the figure it created.  A call
\* with show_figure=False returns with its figure still open, so the count
\* of open figures is at least 1 after it.
C7_FigureLeftOpen ==
    [][(pc = "L175" /\ ~show_figure) =>
          (pc' = "idle" /\ openFigures' = openFigures /\ openFigures' >= 1)]_vars

C7_Witness ==
    /\ pc = "L175"
    /\ ~show_figure
    /\ save_figure
    /\ openFigures = 1

\* C8: a call creates at most one figure, and only after all four
\* partitions; once its panels are drawn it has created exactly one figure
\* with four panels, at grid positions 1 to 4 of the 2x2 grid in the order
\* train truth, train prediction, test truth, test prediction, the train
\* panels blue/orange and the test panels green/red.
C8_FourPanelsInOrder ==
    /\ Cardinality(EventsOf("figure")) = fig.created
    /\ fig.created <= 1
    /\ \A i \in EventsOf("figure") :
          /\ i = 5
          /\ \A j \in 1..4 : events[j].op = "_get_sample_indices"
    /\ Cardinality(EventsOf("_get_sample_indices")) <= 4
    /\ Drawn =>
          /\ fig.created = 1
          /\ Len(fig.panels) = 4
          /\ PanelLayout(1) = <<221, "Train set ground truth",
                                "inliers", "blue", "outliers", "orange">>
          /\ PanelLayout(2) = <<222, "Train set prediction",
                                "inliers", "blue", "outliers", "orange">>
          /\ PanelLayout(3) = <<223, "Test set ground truth",
                                "inliers", "green", "outliers", "red">>
          /\ PanelLayout(4) = <<224, "Test set prediction",
                                "inliers", "green", "outliers", "red">>
          /\ [j \in 1..4 |-> events[5 + j].arg] =
                <<"Train set ground truth", "Train set prediction",
                  "Test set ground truth", "Test set prediction">>

C8_Witness ==
    /\ pc = "L175"
    /\ Len(fig.panels) = 4
    /\ Len(X_train.rows) = 2
    /\ Len(X_test.rows) = 1

\* C9: labels other than 0 and 1 raise nothing, in the partitioner and in
\* visualize: the call goes on, and in each of the four partitions the rows
\* with such a label are in neither subset, so that the two subsets hold as
\* many rows as have a label in {0,1}.
C9_OtherLabelsExcluded ==
    /\ (Running /\ ~BadFeatures /\ ~BadLengths /\ Len(X_train.rows) >= 1
            /\ Len(X_test.rows) >= 1) => pc # "raised"
    /\ Partitioned =>
          /\ ExcludesOtherLabels(X_train, y_train,
                                 part.X_train_outliers, part.X_train_inliers)
          /\ ExcludesOtherLabels(X_train, y_train_pred,
                                 part.X_train_outliers_pred, part.X_train_inliers_pred)
          /\ ExcludesOtherLabels(X_test, y_test,
                                 part.X_test_outliers, part.X_test_inliers)
          /\ ExcludesOtherLabels(X_test, y_test_pred,
                                 part.X_test_outliers_pred, part.X_test_inliers_pred)

C9_Witness ==
    /\ pc = "L175"
    /\ y_train = <<2, 1>>
    /\ Len(part.X_train_outliers.rows) + Len(part.X_train_inliers.rows) = 1

====
